---- MODULE Spec2Model ----
(***************************************************************************)
(* Save path of the safetensors metadata editor: the header patch          *)
(* (update_metadata / SaveCommand._update_safetensors_metadata /           *)
(* SafetensorService.write_metadata), the fallback rewriter and the save   *)
(* transaction (backup, patch, replace, backup deletion) run by the        *)
(* background worker.  Files are modelled as byte sequences; the header is *)
(* serialised and parsed byte by byte.                                     *)
(***************************************************************************)
EXTENDS Integers, Sequences, FiniteSets, TLC

(***************************************************************************)
(* Bytes and text.  A byte is a number 0..255, a byte string a sequence of *)
(* bytes.  Ord gives the ASCII code of the characters the model writes.    *)
(***************************************************************************)
Ord(c) ==
  CASE c = "a" -> 97 [] c = "b" -> 98 [] c = "c" -> 99 [] c = "d" -> 100
    [] c = "e" -> 101 [] c = "f" -> 102 [] c = "g" -> 103 [] c = "h" -> 104
    [] c = "i" -> 105 [] c = "j" -> 106 [] c = "k" -> 107 [] c = "l" -> 108
    [] c = "m" -> 109 [] c = "n" -> 110 [] c = "o" -> 111 [] c = "p" -> 112
    [] c = "q" -> 113 [] c = "r" -> 114 [] c = "s" -> 115 [] c = "t" -> 116
    [] c = "u" -> 117 [] c = "v" -> 118 [] c = "w" -> 119 [] c = "x" -> 120
    [] c = "y" -> 121 [] c = "z" -> 122 [] c = "0" -> 48 [] c = "1" -> 49
    [] c = "2" -> 50 [] c = "3" -> 51 [] c = "4" -> 52 [] c = "5" -> 53
    [] c = "6" -> 54 [] c = "7" -> 55 [] c = "8" -> 56 [] c = "9" -> 57
    [] c = "_" -> 95 [] c = "." -> 46 [] c = "U" -> 85

B(cs) == [i \in 1..Len(cs) |-> Ord(cs[i])]

HexDigits == B(<<"0","1","2","3","4","5","6","7","8","9","a","b","c","d","e","f">>)

METADATA_KEY == B(<<"_","_","m","e","t","a","d","a","t","a","_","_">>)

HASH_KEY == B(<<"m","o","d","e","l","s","p","e","c",".","h","a","s","h","_","s","h","a","2","5","6">>)

Min(S) == CHOOSE x \in S : \A y \in S : x <= y

(***************************************************************************)
(* int.to_bytes(8, 'little') / struct.pack('<Q', n) and their inverse.     *)
(* from_bytes accepts fewer than 8 bytes (compute_sha256 does not check).  *)
(***************************************************************************)
RECURSIVE LittleEndian(_, _)
LittleEndian(n, width) ==
  IF width = 0 THEN <<>> ELSE <<n % 256>> \o LittleEndian(n \div 256, width - 1)

to_bytes_little(n) == LittleEndian(n, 8)

RECURSIVE from_bytes_little(_)
from_bytes_little(bs) ==
  IF bs = <<>> THEN 0
  ELSE Head(bs) + 256 * from_bytes_little(Tail(bs))

(***************************************************************************)
(* f.read(n) at offset pos (0-based) of a file holding `data`.             *)
(***************************************************************************)
ReadAt(data, pos, n) ==
  IF pos >= Len(data) \/ n <= 0 THEN <<>>
  ELSE SubSeq(data, pos + 1, IF pos + n > Len(data) THEN Len(data) ELSE pos + n)

ReadToEnd(data, pos) == ReadAt(data, pos, Len(data))

(***************************************************************************)
(* JSON values of the modelled subset: a string or an object whose members *)
(* keep their order (Python dicts are insertion ordered).                  *)
(***************************************************************************)
Str(s) == [obj |-> FALSE, str |-> s, mem |-> <<>>]

Obj(m) == [obj |-> TRUE, str |-> <<>>, mem |-> m]

KV(k, v) == [k |-> k, v |-> v]

\* dict of string -> string, as an ordered sequence of <<key, value>> pairs
Keys(d) == {d[i][1] : i \in 1..Len(d)}

HasKey(d, k) == \E i \in 1..Len(d) : d[i][1] = k

Get(d, k) == d[CHOOSE i \in 1..Len(d) : d[i][1] = k][2]

\* d[k] = v : overwrite in place, or insert at the end
DictSet(d, k, v) ==
  IF HasKey(d, k)
  THEN [i \in 1..Len(d) |-> IF d[i][1] = k THEN <<k, v>> ELSE d[i]]
  ELSE Append(d, <<k, v>>)

\* d.update(e)
RECURSIVE DictUpdate(_, _)
DictUpdate(d, e) ==
  IF e = <<>> THEN d
  ELSE DictUpdate(DictSet(d, Head(e)[1], Head(e)[2]), Tail(e))

\* the same two operations on the members of a JSON object
MemHas(m, k) == \E i \in 1..Len(m) : m[i].k = k

MemGet(m, k) == m[CHOOSE i \in 1..Len(m) : m[i].k = k].v

MemSet(m, k, v) ==
  IF MemHas(m, k)
  THEN [i \in 1..Len(m) |-> IF m[i].k = k THEN KV(k, v) ELSE m[i]]
  ELSE Append(m, KV(k, v))

\* a flat dict as a JSON object and back
DictToObj(d) == Obj([i \in 1..Len(d) |-> KV(d[i][1], Str(d[i][2]))])

ObjToDict(o) == [i \in 1..Len(o.mem) |-> <<o.mem[i].k, o.mem[i].v.str>>]

(***************************************************************************)
(* json.dumps(v, separators=(',', ':')).encode('utf-8')                    *)
(***************************************************************************)
RECURSIVE json_dumps(_), DumpMembers(_, _)
json_dumps(v) ==
  IF v.obj THEN <<123>> \o DumpMembers(v.mem, 1) \o <<125>>
  ELSE <<34>> \o v.str \o <<34>>

DumpMembers(m, i) ==
  IF i > Len(m) THEN <<>>
  ELSE (IF i > 1 THEN <<44>> ELSE <<>>)
       \o <<34>> \o m[i].k \o <<34, 58>> \o json_dumps(m[i].v)
       \o DumpMembers(m, i + 1)

(***************************************************************************)
(* json.loads(bytes.decode('utf-8')): recursive descent over the bytes.    *)
(* Strings hold printable ASCII without quote or backslash; blanks between *)
(* tokens are skipped; a repeated key keeps its first position and its     *)
(* last value; anything else (and any byte >= 128) is a decode error.      *)
(***************************************************************************)
ParseFail == [ok |-> FALSE, val |-> Str(<<>>), next |-> 0]

RECURSIVE SkipWs(_, _)
SkipWs(b, i) == IF i <= Len(b) /\ b[i] = 32 THEN SkipWs(b, i + 1) ELSE i

ParseString(b, i) ==
  LET closes == {j \in (i + 1)..Len(b) : b[j] = 34} IN
  IF i > Len(b) \/ b[i] # 34 \/ closes = {} THEN ParseFail
  ELSE LET j == Min(closes) IN
       IF \E q \in (i + 1)..(j - 1) : b[q] < 32 \/ b[q] > 126 \/ b[q] = 92
       THEN ParseFail
       ELSE [ok |-> TRUE, val |-> Str(SubSeq(b, i + 1, j - 1)), next |-> j + 1]

RECURSIVE ParseValue(_, _), ParseMembers(_, _, _)
ParseValue(b, i0) ==
  LET i == SkipWs(b, i0) IN
  IF i > Len(b) THEN ParseFail
  ELSE IF b[i] = 34 THEN ParseString(b, i)
  ELSE IF b[i] = 123 THEN
    LET j == SkipWs(b, i + 1) IN
    IF j <= Len(b) /\ b[j] = 125
    THEN [ok |-> TRUE, val |-> Obj(<<>>), next |-> j + 1]
    ELSE ParseMembers(b, j, <<>>)
  ELSE ParseFail

ParseMembers(b, i, acc) ==
  LET key == ParseString(b, i) IN
  IF ~key.ok THEN ParseFail
  ELSE LET c == SkipWs(b, key.next) IN
    IF c > Len(b) \/ b[c] # 58 THEN ParseFail
    ELSE LET val == ParseValue(b, c + 1) IN
      IF ~val.ok THEN ParseFail
      ELSE LET e == SkipWs(b, val.next)
               acc2 == MemSet(acc, key.val.str, val.val) IN
        IF e > Len(b) THEN ParseFail
        ELSE IF b[e] = 125 THEN [ok |-> TRUE, val |-> Obj(acc2), next |-> e + 1]
        ELSE IF b[e] = 44 THEN ParseMembers(b, SkipWs(b, e + 1), acc2)
        ELSE ParseFail

json_loads(b) ==
  IF \E i \in 1..Len(b) : b[i] >= 128 THEN ParseFail
  ELSE LET r == ParseValue(b, 1) IN
       IF r.ok /\ SkipWs(b, r.next) > Len(b) THEN r ELSE ParseFail

(***************************************************************************)
(* hashlib.sha256(...).hexdigest(): a digest of the bytes, abstracted to   *)
(* an 8-bit rolling checksum written as two lowercase hex digits.          *)
(***************************************************************************)
RECURSIVE Digest(_, _)
Digest(bs, h) == IF bs = <<>> THEN h ELSE Digest(Tail(bs), (h * 31 + Head(bs) + 1) % 256)

sha256_hexdigest(bs) ==
  LET h == Digest(bs, 7) IN <<HexDigits[(h \div 16) + 1], HexDigits[(h % 16) + 1]>>

\* the bytes hashed after f.seek(header_len)
HashedBytes_seekShort(data, header_len) == ReadToEnd(data, header_len)

\* f.seek(8 + header_len); tensor_bytes = f.read()
HashedBytes(data, header_len) == ReadToEnd(data, 8 + header_len)

\* utils.compute_sha256: hash of everything after 8 + header_len
compute_sha256(data) ==
  LET header_len == from_bytes_little(ReadAt(data, 0, 8))
      tensor_bytes == HashedBytes(data, header_len)
  IN B(<<"0", "x">>) \o sha256_hexdigest(tensor_bytes)

(***************************************************************************)
(* Header phase of the fast path (update_metadata lines 21-50, the same    *)
(* code as SaveCommand._update_safetensors_metadata lines 98-127): read    *)
(* and check the length prefix and the header, merge new_metadata into     *)
(* __metadata__ and serialise the new header.                              *)
(***************************************************************************)
HeaderFail == [ok |-> FALSE, new_header_bytes |-> <<>>, tensor_data_start |-> 0]

\* header_json['__metadata__'].update(new_metadata)
RECURSIVE MemUpdate(_, _)
MemUpdate(m, d) ==
  IF d = <<>> THEN m
  ELSE MemUpdate(MemSet(m, Head(d)[1], Str(Head(d)[2])), Tail(d))

\* only __metadata__ survives the merge
MergeHeader_metadataOnly(header_json, new_metadata) ==
  LET old == IF MemHas(header_json.mem, METADATA_KEY)
             THEN MemGet(header_json.mem, METADATA_KEY) ELSE Obj(<<>>)
  IN Obj(<<KV(METADATA_KEY, Obj(MemUpdate(old.mem, new_metadata)))>>)

MergeHeader(header_json, new_metadata) ==
  LET withMeta == IF MemHas(header_json.mem, METADATA_KEY) THEN header_json.mem
                  ELSE MemSet(header_json.mem, METADATA_KEY, Obj(<<>>))
      old == MemGet(withMeta, METADATA_KEY)
  IN Obj(MemSet(withMeta, METADATA_KEY, Obj(MemUpdate(old.mem, new_metadata))))

\* the length prefix counting its own 8 bytes
NewHeaderLen_withPrefix(new_header_bytes) == Len(new_header_bytes) + 8

\* new_header_len = len(new_header_bytes)
NewHeaderLen(new_header_bytes) == Len(new_header_bytes)

update_metadata_header(data, new_metadata) ==
  LET header_len_bytes == ReadAt(data, 0, 8)
      header_len == from_bytes_little(header_len_bytes)
      header_bytes == ReadAt(data, 8, header_len)
      parsed == json_loads(header_bytes)
  IN IF Len(header_len_bytes) # 8 THEN HeaderFail
     ELSE IF Len(header_bytes) # header_len THEN HeaderFail
     ELSE IF ~parsed.ok \/ ~parsed.val.obj THEN HeaderFail
     ELSE IF MemHas(parsed.val.mem, METADATA_KEY)
             /\ ~MemGet(parsed.val.mem, METADATA_KEY).obj THEN HeaderFail
     ELSE [ok |-> TRUE,
           new_header_bytes |-> json_dumps(MergeHeader(parsed.val, new_metadata)),
           tensor_data_start |-> 8 + header_len]

(***************************************************************************)
(* Header phase of SafetensorService.write_metadata (lines 92-106): the    *)
(* header is not checked against the declared length and __metadata__ is   *)
(* assigned, not merged.                                                   *)
(***************************************************************************)
ReplaceHeader(header_json, metadata) ==
  Obj(MemSet(header_json.mem, METADATA_KEY, DictToObj(metadata)))

write_metadata_header(data, metadata) ==
  LET header_len_bytes == ReadAt(data, 0, 8)
      header_len == from_bytes_little(header_len_bytes)
      header_bytes == ReadAt(data, 8, header_len)
      parsed == json_loads(header_bytes)
  IN IF Len(header_len_bytes) # 8 THEN HeaderFail
     ELSE IF ~parsed.ok \/ ~parsed.val.obj THEN HeaderFail
     ELSE [ok |-> TRUE,
           new_header_bytes |-> json_dumps(ReplaceHeader(parsed.val, metadata)),
           tensor_data_start |-> 8 + header_len]

\* dst.write(new_header_len.to_bytes(8, 'little')); dst.write(new_header_bytes)
HeaderBlock(new_header_bytes) ==
  to_bytes_little(NewHeaderLen(new_header_bytes)) \o new_header_bytes

(***************************************************************************)
(* What a reader finds in a file: the header as read_safetensors_metadata *)
(* decodes it, and the payload after it.                                   *)
(***************************************************************************)
DeclaredLen(data) == from_bytes_little(ReadAt(data, 0, 8))

HeaderBytes(data) == ReadAt(data, 8, DeclaredLen(data))

PayloadBytes(data) == ReadToEnd(data, 8 + DeclaredLen(data))

WellFormed(data) ==
  /\ Len(data) >= 8
  /\ Len(HeaderBytes(data)) = DeclaredLen(data)
  /\ json_loads(HeaderBytes(data)).ok
  /\ json_loads(HeaderBytes(data)).val.obj

\* safetensors.read_safetensors_metadata: header.get("__metadata__", {})
read_safetensors_metadata(data) ==
  LET header == json_loads(HeaderBytes(data)).val IN
  IF MemHas(header.mem, METADATA_KEY)
  THEN ObjToDict(MemGet(header.mem, METADATA_KEY))
  ELSE <<>>

Readers == {"SafetensorService.read_metadata", "read_safetensors_metadata"}

\* a reader that accepts a header shorter than the length prefix declares
HeaderTruncated_ignored(header_bytes, header_len) == FALSE

\* if len(header_bytes) != header_len: raise ValueError("... truncated ...")
HeaderTruncated(header_bytes, header_len) == Len(header_bytes) # header_len

ReadError(reader, message) ==
  [reader |-> reader, ok |-> FALSE, error |-> message, metadata |-> <<>>]

\* SafetensorService.read_metadata / read_safetensors_metadata: the metadata
\* dict, or the exception raised.  Every failure of the service's reader
\* becomes ValueError; the function lets the AttributeError of a header that
\* is not a JSON object through.
read_metadata(reader, data) ==
  LET header_len_bytes == ReadAt(data, 0, 8) IN
  IF Len(header_len_bytes) # 8 THEN ReadError(reader, "ValueError: too small")
  ELSE LET header_len == from_bytes_little(header_len_bytes)
           header_bytes == ReadAt(data, 8, header_len)
       IN IF HeaderTruncated(header_bytes, header_len)
          THEN ReadError(reader, "ValueError: truncated")
          ELSE LET header == json_loads(header_bytes) IN
               IF ~header.ok THEN ReadError(reader, "ValueError: invalid JSON")
               ELSE IF ~header.val.obj
               THEN ReadError(reader, IF reader = "read_safetensors_metadata"
                                      THEN "AttributeError"
                                      ELSE "ValueError: unexpected error")
               ELSE [reader |-> reader, ok |-> TRUE, error |-> "none",
                     metadata |-> IF MemHas(header.val.mem, METADATA_KEY)
                                  THEN ObjToDict(MemGet(header.val.mem, METADATA_KEY))
                                  ELSE <<>>]

\* a dict as a mapping, order dropped
AsMap(d) == {<<d[i][1], d[i][2]>> : i \in 1..Len(d)}

(***************************************************************************)
(* The fallback rewriter (update_metadata_fallback): safe_open loads the   *)
(* tensors of a well-formed file, save_file writes them back with          *)
(* metadata=new_metadata.  The library pads the header with blanks to a    *)
(* multiple of 8 bytes and writes __metadata__ first.                      *)
(***************************************************************************)
RECURSIVE PadTo8(_)
PadTo8(bs) == IF Len(bs) % 8 = 0 THEN bs ELSE PadTo8(Append(bs, 32))

Tensors(header_json) ==
  SelectSeq(header_json.mem, LAMBDA e : e.k # METADATA_KEY)

safe_open_ok(data) == WellFormed(data)

FallbackMetadata(data, new_metadata) == new_metadata

update_metadata_fallback(data, new_metadata) ==
  LET header == json_loads(HeaderBytes(data)).val
      out == Obj(<<KV(METADATA_KEY, DictToObj(FallbackMetadata(data, new_metadata)))>>
                 \o Tensors(header))
  IN HeaderBlock(PadTo8(json_dumps(out))) \o PayloadBytes(data)

(***************************************************************************)
(* Inputs: source files, the metadata handed to the save, chunk sizes.     *)
(***************************************************************************)
MaxPayload == 3

MaxChunk == 2

Payload(n) == [i \in 1..n |-> i]

TensorEntry ==
  KV(B(<<"t">>), Obj(<<KV(B(<<"d","t","y","p","e">>), Str(B(<<"U","8">>)))>>))

MetaA == << <<B(<<"a">>), B(<<"1">>)>> >>

MetaAB == << <<B(<<"a">>), B(<<"1">>)>>, <<B(<<"b">>), B(<<"2">>)>> >>

\* header without __metadata__
HeaderNoMeta == json_dumps(Obj(<<TensorEntry>>))

\* header as the library writes it: __metadata__ first, padded with blanks
HeaderLibrary == PadTo8(json_dumps(Obj(<<KV(METADATA_KEY, DictToObj(MetaA)), TensorEntry>>)))

\* header with the tensor first and no padding
HeaderTensorFirst == json_dumps(Obj(<<TensorEntry, KV(METADATA_KEY, DictToObj(MetaAB))>>))

\* header of a file that already stores a hash
MetaHashed == << <<HASH_KEY, B(<<"0","x","0","0">>)>>, <<B(<<"a">>), B(<<"1">>)>> >>

HeaderHashed == json_dumps(Obj(<<KV(METADATA_KEY, DictToObj(MetaHashed)), TensorEntry>>))

ValidHeaders == {HeaderNoMeta, HeaderLibrary, HeaderTensorFirst, HeaderHashed}

MakeFile(header, payload) == to_bytes_little(Len(header)) \o header \o payload

ValidFiles == {MakeFile(h, Payload(n)) : h \in ValidHeaders, n \in 0..MaxPayload}

\* fewer than 8 bytes
FileTooSmall == B(<<"t","i","n","y">>)

\* the length prefix declares more header bytes than the file holds
FileTruncated == to_bytes_little(Len(HeaderNoMeta) + 3) \o HeaderNoMeta

\* the header is not JSON
FileInvalidJson == MakeFile(<<123>> \o B(<<"x">>), Payload(1))

MalformedFiles == {FileTooSmall, FileTruncated, FileInvalidJson}

SourceFiles == ValidFiles \cup MalformedFiles

Edits ==
  { <<>>,
    << <<B(<<"b">>), B(<<"3">>)>> >>,
    << <<B(<<"a">>), <<>> >>, <<B(<<"c">>), B(<<"4">>)>> >>,
    << <<HASH_KEY, B(<<"0","x","0","0">>)>>, <<B(<<"a">>), B(<<"2">>)>> >> }

StaleBackup == B(<<"o","l","d">>)

(***************************************************************************)
(* State.                                                                  *)
(***************************************************************************)
VARIABLES
  fs,                \* the three paths: filepath, filepath+".tmp", filepath+".bak"
  pc,                \* position of the save worker
  impl,              \* which save runs: SaveCommand, SaveChangesCommand, SafetensorService
  choice,            \* answer to the "Save Options" question ("yes" = overwrite, no backup kept)
  metadata,          \* the metadata dict handed to the worker
  chunk_size,
  new_header_bytes,  \* locals of the patch
  tensor_data_start,
  copied,
  src0,              \* bytes at filepath when the save was requested
  backupDone,        \* shutil.copy2(filepath, backup_path) has returned
  fastFailed,        \* the fast path raised (format or I/O error)
  fallback,          \* "none", "running", "ok", "failed"
  requested,         \* the metadata the caller asked to save
  saves,             \* number of saves requested on this file so far
  prevFast,          \* the previous save of this file went through the fast path
  bak0,              \* backup_path existed when the save was requested
  reports,           \* percentages passed to the progress sink by this save
  last_progress_reported,
  event,             \* terminal event that reached the caller: "none", "completed", "error", "lost"
  read_result,       \* outcome of the last read of filepath
  ui,                \* the surface that takes the requests: MainController, SaveCommand, SafetensorsEditor
  current_file,      \* MainController._current_file / filepath_var
  model_data,        \* MetadataModel._data, the fields of the form
  original_data,     \* MetadataModel._original_data
  thread,            \* MainController.thread: "none" or "running"
  workers,           \* the save workers started and not yet reaped
  status,            \* last status message shown
  disk,              \* metadata stored in each file
  fields_enabled,    \* MainView.set_all_fields_enabled: the input fields accept edits
  editor,            \* the form editor in use (class), "none" outside the form
  editor_metadata,   \* SafetensorsEditor.metadata
  field_vars,        \* text of the form fields, by metadata key
  form_event,        \* outcome of the editor's last handler
  filepath_var,      \* the editor's file entry, filled by browse_file only
  keys_total,        \* update_metadata_fallback: total = len(keys)
  key_index,         \* update_metadata_fallback: tensors loaded so far (the next i)
  loading_msgs,      \* the "Loading tensors" messages emitted
  recent_files,      \* ConfigService._settings["recent_files"]
  settings_file,     \* the recent_files list stored in settings.json
  added_at,          \* for each path, the number of the last add_recent_file of it (0: never)
  adds,              \* add_recent_file calls so far
  reorders,          \* calls other than the first add of a path, so far
  hist_data,         \* the undo-capable MetadataModel: _data
  hist_original,     \* _original_data
  history,           \* _history
  history_index,     \* _history_index
  load_floor         \* index in _history of the last load's snapshot, -1 before a load

vars == <<fs, pc, impl, choice, metadata, chunk_size, new_header_bytes,
          tensor_data_start, copied, src0, backupDone, fastFailed, fallback,
          requested, saves, prevFast, bak0, reports, last_progress_reported,
          event, read_result,
          ui, current_file, model_data, original_data, thread, workers, status, disk,
          fields_enabled, editor, editor_metadata, field_vars, form_event, filepath_var,
          keys_total, key_index, loading_msgs,
          recent_files, settings_file, added_at, adds, reorders,
          hist_data, hist_original, history, history_index, load_floor>>

Paths == {"filepath", "tmp_path", "backup_path"}

NotRead == [reader |-> "none", ok |-> FALSE, error |-> "none", metadata |-> <<>>]

Absent == [exists |-> FALSE, data |-> <<>>]

File(data) == [exists |-> TRUE, data |-> data]

Commands == {"SaveCommand", "SaveChangesCommand"}

Impls == Commands \cup {"SafetensorService"}

MaxValue == 1

Values == 0..MaxValue

Files == {"f1", "f2"}

UIs == {"MainController", "SaveCommand", "SafetensorsEditor"}

\* MainController.__init__: no file, an empty model, no thread
CtlInit ==
  /\ current_file = "none"
  /\ model_data = 0
  /\ original_data = 0
  /\ thread = "none"
  /\ workers = <<>>
  /\ status = "Ready"
  /\ fields_enabled = FALSE

CtlIdle ==
  /\ ui = "MainController"
  /\ CtlInit
  /\ disk = [f \in Files |-> 0]

\* no form editor in use
FormIdle ==
  /\ editor = "none"
  /\ editor_metadata = <<>>
  /\ field_vars = <<>>
  /\ form_event = "none"
  /\ filepath_var = ""

\* no tensor loop running
LoaderIdle ==
  /\ keys_total = 0
  /\ key_index = 0
  /\ loading_msgs = <<>>

MaxRecentPaths == 11

RecentPaths == 1..MaxRecentPaths

\* ConfigService on first start: _get_default_settings, no settings.json
RecentIdle ==
  /\ recent_files = <<>>
  /\ settings_file = <<>>
  /\ added_at = [p \in RecentPaths |-> 0]
  /\ adds = 0
  /\ reorders = 0

\* MetadataModel.__init__ of the undo-capable model
UndoIdle ==
  /\ hist_data = 0
  /\ hist_original = 0
  /\ history = <<>>
  /\ history_index = -1
  /\ load_floor = -1

AuxIdle == FormIdle /\ LoaderIdle /\ RecentIdle /\ UndoIdle

Init ==
  /\ \E src \in SourceFiles, bak \in {Absent, File(StaleBackup)} :
       /\ fs = [p \in Paths |-> IF p = "filepath" THEN File(src)
                                ELSE IF p = "backup_path" THEN bak ELSE Absent]
       /\ src0 = src
       /\ bak0 = bak.exists
  /\ pc = "idle"
  /\ impl \in Impls
  /\ choice = "none"
  /\ metadata \in Edits
  /\ requested = metadata
  /\ chunk_size \in 1..MaxChunk
  /\ new_header_bytes = <<>>
  /\ tensor_data_start = 0
  /\ copied = 0
  /\ backupDone = FALSE
  /\ fastFailed = FALSE
  /\ fallback = "none"
  /\ saves = 1
  /\ prevFast = FALSE
  /\ reports = <<>>
  /\ last_progress_reported = -1
  /\ event = "none"
  /\ read_result = NotRead
  /\ CtlIdle
  /\ AuxIdle

locals == <<new_header_bytes, tensor_data_start, copied>>

inputs == <<impl, chunk_size, src0>>

ghosts == <<backupDone, fastFailed, fallback>>

\* the controller's side, not touched by the steps of a save
ctl == <<ui, current_file, model_data, original_data, thread, workers, status, disk,
         fields_enabled>>

\* the form editors' side
form == <<editor, editor_metadata, field_vars, form_event, filepath_var>>

\* the tensor loop of the fallback rewriter
loader == <<keys_total, key_index, loading_msgs>>

\* the configuration service's side
recent == <<recent_files, settings_file, added_at, adds, reorders>>

\* the undo-capable metadata model
undoable == <<hist_data, hist_original, history, history_index, load_floor>>

aux == <<form, loader, recent, undoable>>

rest == <<requested, saves, prevFast, bak0, event, read_result, ctl, aux>>

progress == <<reports, last_progress_reported>>

(***************************************************************************)
(* SaveCommand.execute / SaveChangesCommand.execute: ask the question and  *)
(* start the worker thread with a copy of the metadata.                    *)
(***************************************************************************)
execute ==
  /\ pc = "idle" /\ impl \in Commands
  /\ \E c \in {"yes", "no"} : choice' = c
  /\ pc' = "hash"
  /\ UNCHANGED <<fs, metadata, locals, inputs, rest, progress, ghosts>>

\* except Exception as e: completion_callback(False, e) / _save_error(e)
Raise == pc' = "failed"

(***************************************************************************)
(* _save_threaded / _perform_save, step by step.  Every file operation     *)
(* either succeeds or raises OSError.                                      *)
(***************************************************************************)
ComputeHash ==
  /\ pc = "hash"
  /\ IF HasKey(metadata, HASH_KEY)
     THEN pc' = "backup_remove" /\ UNCHANGED metadata
     ELSE \/ /\ metadata' = DictSet(metadata, HASH_KEY, compute_sha256(fs["filepath"].data))
             /\ pc' = "backup_remove"
          \/ Raise /\ UNCHANGED metadata
  /\ UNCHANGED <<fs, choice, locals, inputs, rest, progress, ghosts>>

\* if os.path.exists(backup_path): os.remove(backup_path)
RemoveOldBackup ==
  /\ pc = "backup_remove"
  /\ IF fs["backup_path"].exists
     THEN \/ fs' = [fs EXCEPT !["backup_path"] = Absent] /\ pc' = "backup_open"
          \/ Raise /\ UNCHANGED fs
     ELSE pc' = "backup_open" /\ UNCHANGED fs
  /\ UNCHANGED <<choice, metadata, locals, inputs, rest, progress, ghosts>>

\* a copy that loses the last byte
copy2_truncated(data) == SubSeq(data, 1, Len(data) - 1)

\* the bytes shutil.copy2 writes to the destination
copy2(data) == data

\* shutil.copy2 creates the destination ...
CopyBackupOpen ==
  /\ pc = "backup_open"
  /\ \/ fs' = [fs EXCEPT !["backup_path"] = File(<<>>)] /\ pc' = "backup_copy"
     \/ Raise /\ UNCHANGED fs
  /\ UNCHANGED <<choice, metadata, locals, inputs, rest, progress, ghosts>>

\* ... and fills it
CopyBackupData ==
  /\ pc = "backup_copy"
  /\ \/ /\ fs' = [fs EXCEPT !["backup_path"] = File(copy2(fs["filepath"].data))]
        /\ backupDone' = TRUE
        /\ pc' = "patch_read"
     \/ Raise /\ UNCHANGED <<fs, backupDone>>
  /\ UNCHANGED <<choice, metadata, locals, inputs, rest, progress, fastFailed, fallback>>

(***************************************************************************)
(* The fast path.  SaveCommand runs its own copy of it and lets the        *)
(* exception reach the except clause of _save_threaded; in                 *)
(* SaveChangesCommand update_metadata swallows the exception, returns      *)
(* False and update_safetensors_metadata goes on to the fallback.          *)
(***************************************************************************)
FastFail ==
  /\ fastFailed' = TRUE
  /\ IF impl = "SaveCommand"
     THEN pc' = "failed" /\ UNCHANGED fallback
     ELSE pc' = "fallback_load" /\ fallback' = "running"

PatchReadHeader ==
  /\ pc = "patch_read"
  /\ LET r == update_metadata_header(fs["filepath"].data, metadata) IN
     \/ /\ r.ok
        /\ new_header_bytes' = r.new_header_bytes
        /\ tensor_data_start' = r.tensor_data_start
        /\ pc' = "patch_open"
        /\ UNCHANGED <<fastFailed, fallback>>
     \/ /\ ~r.ok
        /\ FastFail
        /\ UNCHANGED <<new_header_bytes, tensor_data_start>>
  /\ UNCHANGED <<fs, choice, metadata, copied, inputs, rest, progress, backupDone>>

\* open(tmp_path, 'wb')
PatchOpen ==
  /\ pc = "patch_open"
  /\ \/ /\ fs' = [fs EXCEPT !["tmp_path"] = File(<<>>)]
        /\ pc' = "patch_header"
        /\ UNCHANGED <<fastFailed, fallback>>
     \/ FastFail /\ UNCHANGED fs
  /\ UNCHANGED <<choice, metadata, locals, inputs, rest, progress, backupDone>>

PatchWriteHeader ==
  /\ pc = "patch_header"
  /\ \/ /\ fs' = [fs EXCEPT !["tmp_path"] = File(HeaderBlock(new_header_bytes))]
        /\ pc' = "patch_copy"
        /\ UNCHANGED <<fastFailed, fallback>>
     \/ FastFail /\ UNCHANGED fs
  /\ copied' = 0
  /\ last_progress_reported' = -1
  /\ UNCHANGED <<choice, metadata, new_header_bytes, tensor_data_start, inputs, rest, reports, backupDone>>

\* the copy loop without src.seek(tensor_data_start)
NextChunk_noSeek(data, start, done, size) == ReadAt(data, done, size)

\* chunk = src.read(chunk_size), the source positioned by src.seek(tensor_data_start)
NextChunk(data, start, done, size) == ReadAt(data, start + done, size)

\* progress = (copied / file_size_remaining) * 100; int(progress / 2) * 2
progress_int(done, file_size_remaining) ==
  (((done * 100) \div file_size_remaining) \div 2) * 2

\* update_progress(f"Copying tensor data: {progress_int}%") when the step changed
ShowProgress(done, file_size_remaining) ==
  IF /\ file_size_remaining > 0
     /\ progress_int(done, file_size_remaining) # last_progress_reported
     /\ progress_int(done, file_size_remaining) % 2 = 0
     /\ progress_int(done, file_size_remaining) > 0
  THEN /\ reports' = Append(reports, progress_int(done, file_size_remaining))
       /\ last_progress_reported' = progress_int(done, file_size_remaining)
  ELSE UNCHANGED progress

PatchCopyChunk ==
  /\ pc = "patch_copy"
  /\ LET chunk == NextChunk(fs["filepath"].data, tensor_data_start, copied, chunk_size) IN
     /\ chunk # <<>>
     /\ \/ /\ fs' = [fs EXCEPT !["tmp_path"] = File(fs["tmp_path"].data \o chunk)]
           /\ copied' = copied + Len(chunk)
           /\ ShowProgress(copied + Len(chunk), Len(fs["filepath"].data) - tensor_data_start)
           /\ UNCHANGED <<pc, fastFailed, fallback>>
        \/ FastFail /\ UNCHANGED <<fs, copied, progress>>
  /\ UNCHANGED <<choice, metadata, new_header_bytes, tensor_data_start, inputs, rest, backupDone>>

\* if not chunk: break, and the files are closed
PatchCopyEnd ==
  /\ pc = "patch_copy"
  /\ NextChunk(fs["filepath"].data, tensor_data_start, copied, chunk_size) = <<>>
  /\ pc' = "replace_remove"
  /\ UNCHANGED <<fs, choice, metadata, locals, inputs, rest, progress, ghosts>>

(***************************************************************************)
(* The fallback (SaveChangesCommand only): safe_open, then save_file.      *)
(* Its exceptions are not caught by update_safetensors_metadata.           *)
(***************************************************************************)
FallbackLoad ==
  /\ pc = "fallback_load"
  /\ \/ /\ safe_open_ok(fs["filepath"].data)
        /\ pc' = "fallback_save"
        /\ UNCHANGED fallback
     \/ Raise /\ fallback' = "failed"
  /\ UNCHANGED <<fs, choice, metadata, locals, inputs, rest, progress, backupDone, fastFailed>>

FallbackSave ==
  /\ pc = "fallback_save"
  /\ \/ /\ fs' = [fs EXCEPT !["tmp_path"] =
                     File(update_metadata_fallback(fs["filepath"].data, metadata))]
        /\ fallback' = "ok"
        /\ pc' = "replace_remove"
     \/ /\ Raise /\ fallback' = "failed"
        /\ \/ UNCHANGED fs
           \/ fs' = [fs EXCEPT !["tmp_path"] = File(<<>>)]
  /\ UNCHANGED <<choice, metadata, locals, inputs, rest, progress, backupDone, fastFailed>>

(***************************************************************************)
(* Replace: os.remove(filepath); os.rename(tmp_path, filepath); then       *)
(* os.remove(backup_path) if the answer was "yes".                         *)
(***************************************************************************)
ReplaceRemove ==
  /\ pc = "replace_remove"
  /\ \/ fs' = [fs EXCEPT !["filepath"] = Absent] /\ pc' = "replace_rename"
     \/ Raise /\ UNCHANGED fs
  /\ UNCHANGED <<choice, metadata, locals, inputs, rest, progress, ghosts>>

ReplaceRename ==
  /\ pc = "replace_rename"
  /\ \/ /\ fs' = [fs EXCEPT !["filepath"] = fs["tmp_path"], !["tmp_path"] = Absent]
        /\ pc' = "backup_delete"
     \/ Raise /\ UNCHANGED fs
  /\ UNCHANGED <<choice, metadata, locals, inputs, rest, progress, ghosts>>

\* a caller whose every answer counts as "overwrite"
Overwrite_any(answer) == TRUE

\* "Click 'Yes' to overwrite. Click 'No' to create a backup and then overwrite."
Overwrite(answer) == answer = "yes"

DeleteBackup ==
  /\ pc = "backup_delete"
  /\ IF Overwrite(choice)
     THEN \/ fs' = [fs EXCEPT !["backup_path"] = Absent] /\ pc' = "done"
          \/ Raise /\ UNCHANGED fs
     ELSE pc' = "done" /\ UNCHANGED fs
  /\ UNCHANGED <<choice, metadata, locals, inputs, rest, progress, ghosts>>

(***************************************************************************)
(* SafetensorService.write_metadata, run by SaveWorker.run.                *)
(***************************************************************************)
SaveWorker_run ==
  /\ pc = "idle" /\ impl = "SafetensorService"
  /\ pc' = "svc_open"
  /\ UNCHANGED <<fs, choice, metadata, locals, inputs, rest, progress, ghosts>>

\* with open(filepath, 'rb') as f_in, open(temp_filepath, 'wb') as f_out
SvcOpen ==
  /\ pc = "svc_open"
  /\ \/ fs' = [fs EXCEPT !["tmp_path"] = File(<<>>)] /\ pc' = "svc_read"
     \/ pc' = "svc_except" /\ UNCHANGED fs
  /\ UNCHANGED <<choice, metadata, locals, inputs, rest, progress, ghosts>>

SvcReadHeader ==
  /\ pc = "svc_read"
  /\ LET r == write_metadata_header(fs["filepath"].data, metadata) IN
     \/ /\ r.ok
        /\ new_header_bytes' = r.new_header_bytes
        /\ tensor_data_start' = r.tensor_data_start
        /\ pc' = "svc_header"
     \/ /\ ~r.ok
        /\ pc' = "svc_except"
        /\ UNCHANGED <<new_header_bytes, tensor_data_start>>
  /\ UNCHANGED <<fs, choice, metadata, copied, inputs, rest, progress, ghosts>>

SvcWriteHeader ==
  /\ pc = "svc_header"
  /\ \/ /\ fs' = [fs EXCEPT !["tmp_path"] = File(HeaderBlock(new_header_bytes))]
        /\ pc' = "svc_copy"
     \/ pc' = "svc_except" /\ UNCHANGED fs
  /\ copied' = 0
  /\ UNCHANGED <<choice, metadata, new_header_bytes, tensor_data_start, inputs, rest, progress, ghosts>>

\* progress = int((bytes_copied / denominator) * 100), or 100 without a
\* payload; the callback gets min(progress, 100)
svc_progress(bytes_copied, total_size, start) ==
  LET denominator == total_size - start
      percent == IF denominator > 0 THEN (bytes_copied * 100) \div denominator ELSE 100
  IN IF percent < 100 THEN percent ELSE 100

\* if progress_callback and total_size > 0: progress_callback(min(progress, 100))
progress_callback(bytes_copied, total_size, start) ==
  IF total_size > 0
  THEN reports' = Append(reports, svc_progress(bytes_copied, total_size, start))
  ELSE UNCHANGED reports

SvcCopyChunk ==
  /\ pc = "svc_copy"
  /\ LET chunk == NextChunk(fs["filepath"].data, tensor_data_start, copied, chunk_size) IN
     /\ chunk # <<>>
     /\ \/ /\ fs' = [fs EXCEPT !["tmp_path"] = File(fs["tmp_path"].data \o chunk)]
           /\ copied' = copied + Len(chunk)
           /\ progress_callback(copied + Len(chunk), Len(fs["filepath"].data), tensor_data_start)
           /\ UNCHANGED pc
        \/ pc' = "svc_except" /\ UNCHANGED <<fs, copied, reports>>
  /\ UNCHANGED <<choice, metadata, new_header_bytes, tensor_data_start, inputs, rest,
                 last_progress_reported, ghosts>>

SvcCopyEnd ==
  /\ pc = "svc_copy"
  /\ NextChunk(fs["filepath"].data, tensor_data_start, copied, chunk_size) = <<>>
  /\ pc' = "svc_replace"
  /\ UNCHANGED <<fs, choice, metadata, locals, inputs, rest, progress, ghosts>>

\* os.replace(temp_filepath, filepath)
\* the sink after a final call without progress_callback(100)
final_callback_omitted(values) == values

\* if progress_callback: progress_callback(100)
final_callback(values) == Append(values, 100)

SvcReplace ==
  /\ pc = "svc_replace"
  /\ \/ /\ fs' = [fs EXCEPT !["filepath"] = fs["tmp_path"], !["tmp_path"] = Absent]
        /\ reports' = final_callback(reports)
        /\ pc' = "done"
     \/ pc' = "svc_except" /\ UNCHANGED <<fs, reports>>
  /\ UNCHANGED <<choice, metadata, locals, inputs, rest, last_progress_reported, ghosts>>

\* except: remove the temp file if it exists, raise IOError
SvcExcept ==
  /\ pc = "svc_except"
  /\ fs' = [fs EXCEPT !["tmp_path"] = Absent]
  /\ Raise
  /\ UNCHANGED <<choice, metadata, locals, inputs, rest, progress, ghosts>>

(***************************************************************************)
(* Reading the metadata of the file at filepath (File > Open).  The        *)
(* readers open the file 'rb' and write nothing.                           *)
(***************************************************************************)
ReadMetadata ==
  /\ pc = "idle"
  /\ \E reader \in Readers : read_result' = read_metadata(reader, fs["filepath"].data)
  /\ pc' = "loaded"
  /\ UNCHANGED <<fs, choice, metadata, locals, inputs, ghosts, progress,
                 requested, saves, prevFast, bak0, event, ctl, aux>>

(***************************************************************************)
(* The terminal event.  SaveWorker.run emits finished(new_filepath) or     *)
(* error(str(e)).  The commands schedule a lambda on the UI thread; the    *)
(* lambda of the except clause refers to the name e, which Python unbinds  *)
(* when the except clause ends: run after that, the lambda raises          *)
(* NameError and the caller's callback is not called.                      *)
(***************************************************************************)
NotifyCompleted ==
  /\ pc = "done" /\ event = "none"
  /\ event' = "completed"
  /\ UNCHANGED <<fs, pc, choice, metadata, locals, inputs, ghosts, progress,
                 requested, saves, prevFast, bak0, read_result, ctl, aux>>

NotifyError ==
  /\ pc = "failed" /\ event = "none"
  /\ IF impl \in Commands
     THEN event' \in {"error", "lost"}
     ELSE event' = "error"
  /\ UNCHANGED <<fs, pc, choice, metadata, locals, inputs, ghosts, progress,
                 requested, saves, prevFast, bak0, read_result, ctl, aux>>

(***************************************************************************)
(* After the completion event the same edit may be saved again.            *)
(***************************************************************************)
MaxSaves == 2

SaveAgain ==
  /\ pc = "done" /\ event = "completed"
  /\ saves < MaxSaves
  /\ saves' = saves + 1
  /\ pc' = "idle"
  /\ src0' = fs["filepath"].data
  /\ bak0' = fs["backup_path"].exists
  /\ prevFast' = (fallback = "none")
  /\ metadata' = requested
  /\ choice' = "none"
  /\ new_header_bytes' = <<>> /\ tensor_data_start' = 0 /\ copied' = 0
  /\ backupDone' = FALSE /\ fastFailed' = FALSE /\ fallback' = "none"
  /\ reports' = <<>> /\ last_progress_reported' = -1
  /\ event' = "none"
  /\ UNCHANGED <<fs, impl, chunk_size, requested, read_result, ctl, aux>>

(***************************************************************************)
(* The process may die between any two steps of the worker.                *)
(***************************************************************************)
Running == pc \notin {"idle", "loaded", "done", "failed", "crashed"}

Crash ==
  /\ Running
  /\ pc' = "crashed"
  /\ UNCHANGED <<fs, choice, metadata, locals, inputs, rest, progress, ghosts>>

Next ==
  \/ execute \/ ComputeHash \/ RemoveOldBackup \/ CopyBackupOpen \/ CopyBackupData
  \/ PatchReadHeader \/ PatchOpen \/ PatchWriteHeader \/ PatchCopyChunk \/ PatchCopyEnd
  \/ FallbackLoad \/ FallbackSave
  \/ ReplaceRemove \/ ReplaceRename \/ DeleteBackup
  \/ SaveWorker_run \/ SvcOpen \/ SvcReadHeader \/ SvcWriteHeader
  \/ SvcCopyChunk \/ SvcCopyEnd \/ SvcReplace \/ SvcExcept
  \/ ReadMetadata \/ NotifyCompleted \/ NotifyError \/ SaveAgain
  \/ Crash

Spec == Init /\ [][Next]_vars

(***************************************************************************)
(* The first editor (src/editor.py, SafetensorsEditor.save_changes): all   *)
(* on the UI thread, safe_open, merge, hash, a backup copy only when the   *)
(* answer is "no", then save_file straight onto filepath.                  *)
(***************************************************************************)
Legacy == "SafetensorsEditor"

LegacySaveChanges ==
  /\ pc = "idle" /\ impl = Legacy
  /\ \E c \in {"yes", "no"} : choice' = c
  /\ pc' = "legacy_load"
  /\ UNCHANGED <<fs, metadata, locals, inputs, rest, progress, ghosts>>

\* existing_metadata = f.metadata().copy() or {}: f.metadata() is None for a
\* file without __metadata__ and the except clause shows the error
LegacyLoad ==
  /\ pc = "legacy_load"
  /\ LET data == fs["filepath"].data IN
     \/ /\ safe_open_ok(data)
        /\ MemHas(json_loads(HeaderBytes(data)).val.mem, METADATA_KEY)
        /\ metadata' = DictUpdate(read_safetensors_metadata(data), metadata)
        /\ pc' = "legacy_hash"
     \/ Raise /\ UNCHANGED metadata
  /\ UNCHANGED <<fs, choice, locals, inputs, rest, progress, ghosts>>

LegacyHash ==
  /\ pc = "legacy_hash"
  /\ IF HasKey(metadata, HASH_KEY)
     THEN pc' = "legacy_backup" /\ UNCHANGED metadata
     ELSE \/ /\ metadata' = DictSet(metadata, HASH_KEY, compute_sha256(fs["filepath"].data))
             /\ pc' = "legacy_backup"
          \/ Raise /\ UNCHANGED metadata
  /\ UNCHANGED <<fs, choice, locals, inputs, rest, progress, ghosts>>

\* if choice == "no": shutil.copy(filepath, backup_path)
LegacyBackupOpen ==
  /\ pc = "legacy_backup"
  /\ IF Overwrite(choice)
     THEN pc' = "legacy_save" /\ UNCHANGED fs
     ELSE \/ fs' = [fs EXCEPT !["backup_path"] = File(<<>>)] /\ pc' = "legacy_backup_copy"
          \/ Raise /\ UNCHANGED fs
  /\ UNCHANGED <<choice, metadata, locals, inputs, rest, progress, ghosts>>

LegacyBackupData ==
  /\ pc = "legacy_backup_copy"
  /\ \/ /\ fs' = [fs EXCEPT !["backup_path"] = File(copy2(fs["filepath"].data))]
        /\ backupDone' = TRUE
        /\ pc' = "legacy_save"
     \/ Raise /\ UNCHANGED <<fs, backupDone>>
  /\ UNCHANGED <<choice, metadata, locals, inputs, rest, progress, fastFailed, fallback>>

\* save_file(tensors, filepath, metadata=merged_metadata) creates filepath anew ...
LegacySaveOpen ==
  /\ pc = "legacy_save"
  /\ \/ /\ new_header_bytes' = update_metadata_fallback(fs["filepath"].data, metadata)
        /\ fs' = [fs EXCEPT !["filepath"] = File(<<>>)]
        /\ pc' = "legacy_write"
     \/ Raise /\ UNCHANGED <<fs, new_header_bytes>>
  /\ UNCHANGED <<choice, metadata, tensor_data_start, copied, inputs, rest, progress, ghosts>>

\* ... and writes the serialised tensors into it
LegacySaveWrite ==
  /\ pc = "legacy_write"
  /\ \/ fs' = [fs EXCEPT !["filepath"] = File(new_header_bytes)] /\ pc' = "done"
     \/ Raise /\ UNCHANGED fs
  /\ UNCHANGED <<choice, metadata, locals, inputs, rest, progress, ghosts>>

LegacyNext ==
  \/ LegacySaveChanges \/ LegacyLoad \/ LegacyHash
  \/ LegacyBackupOpen \/ LegacyBackupData \/ LegacySaveOpen \/ LegacySaveWrite

InitAll ==
  /\ \E src \in SourceFiles, bak \in {Absent, File(StaleBackup)} :
       /\ fs = [p \in Paths |-> IF p = "filepath" THEN File(src)
                                ELSE IF p = "backup_path" THEN bak ELSE Absent]
       /\ src0 = src
       /\ bak0 = bak.exists
  /\ pc = "idle"
  /\ impl \in Impls \cup {Legacy}
  /\ choice = "none"
  /\ metadata \in Edits
  /\ requested = metadata
  /\ chunk_size \in 1..MaxChunk
  /\ new_header_bytes = <<>>
  /\ tensor_data_start = 0
  /\ copied = 0
  /\ backupDone = FALSE
  /\ fastFailed = FALSE
  /\ fallback = "none"
  /\ saves = 1
  /\ prevFast = FALSE
  /\ reports = <<>>
  /\ last_progress_reported = -1
  /\ event = "none"
  /\ read_result = NotRead
  /\ CtlIdle
  /\ AuxIdle

SpecAll == InitAll /\ [][Next \/ LegacyNext]_vars

(***************************************************************************)
(* Save requests.  The surface that takes them (the Qt MainController, the *)
(* Tk SaveCommand, the Tk SafetensorsEditor) decides whether a worker is   *)
(* started; what a worker does to the file is the save modelled above and  *)
(* is reduced here to storing the worker's metadata in the file.           *)
(***************************************************************************)
MaxWorkers == 2

save == <<fs, pc, choice, metadata, locals, inputs, ghosts, progress,
          requested, saves, prevFast, bak0, event, read_result, aux>>

Worker(filepath, data) == [filepath |-> filepath, metadata |-> data, state |-> "running"]

Remove(seq, i) == SubSeq(seq, 1, i - 1) \o SubSeq(seq, i + 1, Len(seq))

\* MainController.update_view, the model's observer: the fields are enabled
\* when a file is open
update_view(file) == fields_enabled' = (file # "none")

\* _load_file / select_file: the file becomes the current one and its
\* metadata is loaded into the model
open_file ==
  /\ \E f \in Files :
       /\ current_file' = f
       /\ model_data' = disk[f]
       /\ original_data' = disk[f]
  /\ status' = "Loaded file"
  /\ update_view(current_file')
  /\ UNCHANGED <<ui, thread, workers, disk, save>>

\* MetadataModel.set_value: the user edits a field
set_value ==
  /\ current_file # "none"
  /\ ui = "MainController" => fields_enabled
  /\ \E v \in Values : v # model_data /\ model_data' = v
  /\ update_view(current_file)
  /\ UNCHANGED <<ui, current_file, original_data, thread, workers, status, disk, save>>

\* MetadataModel.is_dirty
is_dirty == model_data # original_data

\* self.thread and self.thread.isRunning()
isRunning == thread = "running"

\* MainController.on_save_requested
on_save_requested ==
  /\ ui = "MainController"
  /\ IF current_file = "none"
     THEN status' = "Please open a file first." /\ UNCHANGED <<thread, workers, fields_enabled>>
     ELSE IF ~is_dirty
     THEN status' = "No changes to save." /\ UNCHANGED <<thread, workers, fields_enabled>>
     ELSE IF isRunning
     THEN /\ status' = "Save operation already in progress."
          /\ UNCHANGED <<thread, workers, fields_enabled>>
     ELSE /\ Len(workers) < MaxWorkers
          /\ fields_enabled' = FALSE
          /\ status' = "Saving"
          /\ thread' = "running"
          /\ workers' = Append(workers, Worker(current_file, model_data))
  /\ UNCHANGED <<ui, current_file, model_data, original_data, disk, save>>

\* SaveCommand.execute / SafetensorsEditor.save_changes: a thread is started
\* for every request that has a file path
save_changes ==
  /\ ui \in {"SaveCommand", "SafetensorsEditor"}
  /\ IF current_file = "none"
     THEN status' = "Please select a file first." /\ UNCHANGED workers
     ELSE /\ Len(workers) < MaxWorkers
          /\ status' = "Saving"
          /\ workers' = Append(workers, Worker(current_file, model_data))
  /\ UNCHANGED <<ui, current_file, model_data, original_data, thread, disk, fields_enabled, save>>

\* the worker writes the file and emits finished, or emits error
worker_run ==
  /\ \E i \in 1..Len(workers) :
       /\ workers[i].state = "running"
       /\ \/ /\ disk' = [disk EXCEPT ![workers[i].filepath] = workers[i].metadata]
             /\ workers' = [workers EXCEPT ![i].state = "finished"]
          \/ /\ workers' = [workers EXCEPT ![i].state = "error"]
             /\ UNCHANGED disk
  /\ UNCHANGED <<ui, current_file, model_data, original_data, thread, status,
                 fields_enabled, save>>

\* the references are kept
cleanup_thread_skipped == UNCHANGED thread

\* MainController.cleanup_thread
cleanup_thread == thread' = "none"

\* MetadataModel.mark_saved: _original_data = deepcopy(_data)
mark_saved == original_data' = model_data

\* MainController.on_save_finished: mark_saved, cleanup_thread.  The Tk
\* surfaces only show the result.
on_save_finished ==
  /\ \E i \in 1..Len(workers) :
       /\ workers[i].state = "finished"
       /\ workers' = Remove(workers, i)
  /\ status' = "Successfully saved"
  /\ IF ui = "MainController"
     THEN mark_saved /\ fields_enabled' = TRUE /\ cleanup_thread
     ELSE UNCHANGED <<original_data, thread, fields_enabled>>
  /\ UNCHANGED <<ui, current_file, model_data, disk, save>>

\* MainController.on_save_error: cleanup_thread
on_save_error ==
  /\ \E i \in 1..Len(workers) :
       /\ workers[i].state = "error"
       /\ workers' = Remove(workers, i)
  /\ status' = "Save failed"
  /\ IF ui = "MainController"
     THEN fields_enabled' = TRUE /\ cleanup_thread
     ELSE UNCHANGED <<thread, fields_enabled>>
  /\ UNCHANGED <<ui, current_file, model_data, original_data, disk, save>>

\* no save requested
WorkerIdle ==
  /\ pc = "idle"
  /\ impl = "SafetensorService"
  /\ choice = "none"
  /\ metadata = <<>>
  /\ requested = <<>>
  /\ chunk_size = 1
  /\ src0 = <<>>
  /\ bak0 = FALSE
  /\ new_header_bytes = <<>>
  /\ tensor_data_start = 0
  /\ copied = 0
  /\ backupDone = FALSE
  /\ fastFailed = FALSE
  /\ fallback = "none"
  /\ saves = 1
  /\ prevFast = FALSE
  /\ reports = <<>>
  /\ last_progress_reported = -1
  /\ event = "none"
  /\ read_result = NotRead

\* no save is being looked at step by step
SaveIdle ==
  /\ fs = [p \in Paths |-> Absent]
  /\ WorkerIdle

InitRequests ==
  /\ SaveIdle
  /\ ui \in UIs
  /\ CtlInit
  /\ disk \in [Files -> Values]
  /\ AuxIdle

NextRequests ==
  \/ open_file \/ set_value \/ on_save_requested \/ save_changes
  \/ worker_run \/ on_save_finished \/ on_save_error

SpecRequests == InitRequests /\ [][NextRequests]_vars

\* The started QThread runs SaveWorker.run, which returns after emitting
\* finished or error; the signal is queued to the controller's thread, whose
\* event loop calls the slot.
SpecRequestsFair ==
  /\ SpecRequests
  /\ WF_vars(worker_run)
  /\ WF_vars(on_save_finished)
  /\ WF_vars(on_save_error)

TypeOK ==
  /\ pc \in {"idle", "hash", "backup_remove", "backup_open", "backup_copy",
             "patch_read", "patch_open", "patch_header", "patch_copy",
             "fallback_load", "fallback_save", "replace_remove", "replace_rename",
             "backup_delete", "svc_open", "svc_read", "svc_header", "svc_copy",
             "svc_replace", "svc_except", "done", "failed", "crashed", "loaded",
             "legacy_load", "legacy_hash", "legacy_backup", "legacy_backup_copy",
             "legacy_save", "legacy_write"}
  /\ impl \in Impls \cup {Legacy}
  /\ choice \in {"none", "yes", "no"}
  /\ \A p \in Paths : fs[p].exists \in BOOLEAN
  /\ fallback \in {"none", "running", "ok", "failed"}
  /\ event \in {"none", "completed", "error", "lost"}
  /\ saves \in 1..MaxSaves
  /\ read_result.reader \in Readers \cup {"none"}

(***************************************************************************)
(* Properties.                                                             *)
(***************************************************************************)
Source == fs["filepath"]

Temp == fs["tmp_path"]

Backup == fs["backup_path"]

\* the fast path (or the service's writer) has written its whole output to tmp_path
PatchOutputReady ==
  \/ pc = "replace_remove" /\ fallback = "none"
  \/ pc = "svc_replace"

\* the header has been written to tmp_path by the patch
PatchHeaderWritten ==
  \/ pc \in {"patch_copy", "svc_copy"}
  \/ PatchOutputReady

\* a complete new version of the file: well formed, with the original payload
CompleteNewFile(data) ==
  WellFormed(data) /\ PayloadBytes(data) = PayloadBytes(src0)

\* C1: in every save, the copy of the source to source+".bak" has completed
\* before the first operation that deletes, renames or overwrites the source.
C1_BackupBeforeMutation == [][Source' # Source => backupDone]_vars

\* C2: at every step of a save, a crash included, the source path or the
\* backup path holds a complete file with the original payload (the untouched
\* original or the fully written new file).
C2_Recoverable ==
  \E p \in {"filepath", "backup_path"} :
    /\ fs[p].exists
    /\ fs[p].data = src0 \/ CompleteNewFile(fs[p].data)

\* the process died after os.remove(filepath) and before os.rename
C2_Witness == pc = "crashed" /\ ~Source.exists /\ Backup = File(src0)

\* C3: when a save ends with an error delivered to the caller, the bytes at
\* the source path are those that were there when the save was requested.
C3_ErrorLeavesSourceUnchanged == pc = "failed" => Source = File(src0)

\* C4: after a failed save the temp path does not exist.
C4_NoTempAfterFailure == pc = "failed" => ~Temp.exists

\* C5: a reader of the source path finds, at any instant of a save, the
\* complete original file or the complete new file, never a missing or
\* partial file.
C5_ReaderSeesWholeFile ==
  Source.exists /\ (Source.data = src0 \/ CompleteNewFile(Source.data))

\* C6: when the fast path fails, the fallback runs, and the caller sees a
\* failure only if the fallback failed too.
C6_FailureOnlyAfterFallback == (pc = "failed" /\ fastFailed) => fallback = "failed"

\* C7: for a valid source file, the metadata read back from the patched file
\* is the source metadata overridden by the edit; no key is removed.
C7_PatchedMetadataIsMerge ==
  (PatchOutputReady /\ WellFormed(src0)) =>
    AsMap(read_safetensors_metadata(Temp.data))
      = AsMap(DictUpdate(read_safetensors_metadata(src0), metadata))

\* C8: for the same source and edit, the fallback writes the metadata the
\* fast path writes (source metadata merged with the edit).
C8_FallbackEqualsFastPath ==
  (pc = "replace_remove" /\ fallback = "ok") =>
    AsMap(read_safetensors_metadata(Temp.data))
      = AsMap(read_safetensors_metadata(
                HeaderBlock(update_metadata_header(Source.data, metadata).new_header_bytes)))

\* C9: the bytes of the fast-path output from offset 8 + new_header_length to
\* the end are the bytes of the source from offset 8 + header_length to the end.
C9_PayloadInvariance ==
  PatchOutputReady =>
    ReadToEnd(Temp.data, 8 + Len(new_header_bytes))
      = ReadToEnd(src0, 8 + from_bytes_little(ReadAt(src0, 0, 8)))

\* a payload copied in more than one chunk
C9_Witness == PatchOutputReady /\ copied > chunk_size /\ copied = MaxPayload

\* C10: in every file the patch writes, the first 8 bytes decode (little
\* endian) to the byte length of the JSON header that follows, and the
\* payload starts right after it.
C10_LengthPrefixExact ==
  PatchHeaderWritten =>
    /\ DeclaredLen(Temp.data) = Len(new_header_bytes)
    /\ HeaderBytes(Temp.data) = new_header_bytes
    /\ json_loads(HeaderBytes(Temp.data)).ok
    /\ Len(Temp.data) = 8 + DeclaredLen(Temp.data) + copied

\* a patched file whose header length differs from the source's
C10_Witness ==
  /\ PatchOutputReady
  /\ DeclaredLen(Temp.data) # DeclaredLen(src0)
  /\ copied > 0

\* the file is shorter than 8 bytes, holds fewer header bytes than its length
\* prefix declares, or its header is not UTF-8 JSON
Malformed(data) ==
  \/ Len(data) < 8
  \/ Len(HeaderBytes(data)) < DeclaredLen(data)
  \/ ~json_loads(HeaderBytes(data)).ok

FormatErrors ==
  {"ValueError: too small", "ValueError: truncated", "ValueError: invalid JSON"}

C12_HashStoredWhenAbsent ==
  ( /\ pc = "done"
    /\ WellFormed(src0)
    /\ ~HasKey(read_safetensors_metadata(src0), HASH_KEY)
    /\ ~HasKey(requested, HASH_KEY) )
  => /\ WellFormed(Source.data)
     /\ HasKey(read_safetensors_metadata(Source.data), HASH_KEY)
     /\ Get(read_safetensors_metadata(Source.data), HASH_KEY) = compute_sha256(src0)
     /\ Get(read_safetensors_metadata(Source.data), HASH_KEY) = compute_sha256(Source.data)

\* the worker computed the hash: the edit came without the key
HashComputed == HasKey(metadata, HASH_KEY) /\ ~HasKey(requested, HASH_KEY)

\* C13: compute_sha256 returns the same value for any two files with the
\* same payload bytes, whatever their headers and metadata are.
C13_HashDependsOnPayloadOnly ==
  (HashComputed /\ WellFormed(src0)) =>
    /\ \A f \in ValidFiles :
         PayloadBytes(f) = PayloadBytes(src0) => compute_sha256(f) = Get(metadata, HASH_KEY)
    /\ pc = "replace_remove" => compute_sha256(Temp.data) = Get(metadata, HASH_KEY)

\* the hash of a source with a payload, and a rewritten file with another header
C13_Witness ==
  /\ HashComputed /\ WellFormed(src0)
  /\ pc = "replace_remove"
  /\ PayloadBytes(src0) # <<>>
  /\ HeaderBytes(Temp.data) # HeaderBytes(src0)

\* C14: applying the same edit to the file a second time writes a file
\* byte-identical to the one the first application wrote (same header key
\* order, same values, same payload).
C14_Idempotent ==
  (saves > 1 /\ prevFast /\ PatchOutputReady) => Temp.data = src0

\* the second application of an edit that changes a value and adds a key, to
\* a file whose header was rewritten by the first
C14_Witness ==
  /\ saves > 1 /\ prevFast /\ PatchOutputReady
  /\ impl \in Commands
  /\ Len(requested) > 1
  /\ PayloadBytes(src0) # <<>>

\* C15: whenever backup_path exists after the backup step of a save, its
\* bytes are the bytes filepath had when the save was requested, also when
\* a backup left by an earlier save was there before.
C15_BackupEqualsOriginal ==
  (backupDone /\ Backup.exists) => Backup.data = src0

\* the backup of a second save, taken over the backup the first save kept
C15_Witness ==
  /\ backupDone /\ Backup.exists
  /\ saves > 1 /\ bak0
  /\ Backup.data = src0

\* backup_path exists after a successful save with the backup kept, and after
\* a failed save that got past the backup step
BackupKept ==
  /\ (pc = "done" /\ backupDone /\ choice = "no") => Backup.exists
  /\ (pc = "failed" /\ backupDone) => Backup.exists

RunningOn(f) ==
  {i \in 1..Len(workers) : workers[i].filepath = f /\ workers[i].state = "running"}

\* C17: while a save is in flight for a file, a second save request is
\* rejected ("save already in progress") and starts no second worker: two
\* save workers never run against the same path.
C17_OneWorkerPerFile ==
  \A f \in Files : Cardinality(RunningOn(f)) <= 1

\* C18: during the payload copy of the fast path, every percentage passed to
\* the progress sink is floor(copied*100/total) rounded down to a multiple of
\* 2 and is larger than the one before, so at most 50 are passed.
C18_ProgressSteps ==
  [][ (pc \in {"patch_copy", "svc_copy"} /\ reports' # reports) =>
        LET total == Len(fs["filepath"].data) - tensor_data_start
            value == reports'[Len(reports')]
        IN /\ Len(reports') = Len(reports) + 1
           /\ value = (((copied' * 100) \div total) \div 2) * 2
           /\ reports # <<>> => value > reports[Len(reports)]
           /\ Len(reports') <= 50 ]_vars

\* C19: when write_metadata is given a progress callback and succeeds, the
\* callback has been called at least once and the last value it received is
\* 100, also for a file with an empty payload.
C19_LastProgressIs100 ==
  (impl = "SafetensorService" /\ pc = "done") =>
    (reports # <<>> /\ reports[Len(reports)] = 100)

\* a file without payload: no chunk is copied and the only call is the last one
C19_Witness ==
  /\ impl = "SafetensorService" /\ pc = "done"
  /\ WellFormed(src0) /\ PayloadBytes(src0) = <<>>
  /\ reports = <<100>>

\* C20: every save that was started delivers one terminal event to the
\* caller: a completion event if it succeeded, an error event otherwise; no
\* failed save ends with its error not reaching the caller.
C20_TerminalEventDelivered ==
  /\ event = "completed" => pc = "done"
  /\ event = "error" => pc = "failed"
  /\ event # "lost"

\* C22: a file that reading rejects as malformed is rejected by the
\* patch/write operation too: the save does not succeed and the source file
\* keeps its bytes.
C22_WriteRejectsMalformed ==
  Malformed(src0) => (pc # "done" /\ Source = File(src0))

\* C23: when the metadata of the source file holds modelspec.hash_sha256
\* and the edit does not mention the key, the saved file holds the same
\* hash value.
C23_StoredHashKept ==
  ( /\ pc = "done"
    /\ WellFormed(src0)
    /\ HasKey(read_safetensors_metadata(src0), HASH_KEY)
    /\ ~HasKey(requested, HASH_KEY) )
  => /\ WellFormed(Source.data)
     /\ HasKey(read_safetensors_metadata(Source.data), HASH_KEY)
     /\ Get(read_safetensors_metadata(Source.data), HASH_KEY)
          = Get(read_safetensors_metadata(src0), HASH_KEY)

\* C24: when the fast path has failed after temp_path was created or partly
\* written, the partial file is gone before the fallback rewriter starts:
\* the fallback never begins with a leftover temp file.
C24_NoLeftoverTemp ==
  (pc = "fallback_load" /\ fastFailed) => ~Temp.exists

\* the top-level entries of a file's header other than __metadata__, in order
TopLevelOthers(data) == Tensors(json_loads(HeaderBytes(data)).val)

\* C26: the patch leaves every top-level header entry other than __metadata__
\* unchanged between the source header and the output header, and adds or
\* removes no top-level key other than __metadata__.
C26_OtherEntriesUnchanged ==
  PatchOutputReady =>
    /\ json_loads(HeaderBytes(Temp.data)).ok
    /\ TopLevelOthers(Temp.data) = TopLevelOthers(src0)

\* a patch has produced its output from a header with a tensor entry and a
\* non-empty edit
C26_Witness ==
  /\ PatchOutputReady
  /\ impl # "SafetensorService"
  /\ TopLevelOthers(src0) # <<>>
  /\ metadata # <<>>
  /\ HeaderBytes(Temp.data) # HeaderBytes(src0)

(***************************************************************************)
(* The form editors.  Each keeps self.metadata and the text of its fields; *)
(* browse/load fills them from the file, the user edits a field, and       *)
(* save_changes collects the fields into the metadata it saves.  The save  *)
(* is taken as one step here: its outcome is the file written by the fast  *)
(* path or by the fallback, or an error.                                   *)
(*   TextKey stands for the fields kept in field_vars (title, author, ...),*)
(*   DescriptionKey for description, thumbnail and date, which the Tk      *)
(*   editors write unconditionally.                                        *)
(***************************************************************************)
PackageEditor == "metaeditor_safetensors.editor.SafetensorsEditor"

LegacyEditor == "editor.SafetensorsEditor"

PyQtEditor == "SafetensorsEditorPyQt"

Editors == {PackageEditor, LegacyEditor, PyQtEditor}

TextKey == B(<<"a">>)

DescriptionKey == B(<<"b">>)

MODELSPEC_FIELDS == <<TextKey, DescriptionKey>>

FieldKeys == {TextKey, DescriptionKey}

FieldValues == {<<>>, B(<<"5">>)}

\* the files opened in the form: one of each header, and a file no reader accepts
FormFiles == {MakeFile(h, Payload(1)) : h \in ValidHeaders} \cup {FileTruncated}

\* the worker's and the controller's variables
core == <<pc, choice, metadata, locals, inputs, ghosts, progress, requested,
          saves, prevFast, bak0, event, read_result, ctl>>

\* the variables no form handler touches
notForm == <<core, loader, recent, undoable>>

\* populate_fields: metadata.get(key, "")
populate_fields(m) ==
  [k \in FieldKeys |-> IF HasKey(m, k) THEN Get(m, k) ELSE <<>>]

\* one field of the collection loop: the update it contributes
collect_field(ed, fv, self_metadata, key) ==
  IF key = DescriptionKey /\ ed # PyQtEditor
  THEN << <<key, fv[key]>> >>
  ELSE IF fv[key] # <<>> THEN << <<key, fv[key]>> >>
  ELSE IF ed = PackageEditor /\ HasKey(self_metadata, key) THEN << <<key, <<>> >> >>
  ELSE <<>>

\* collect_metadata_from_fields / the loop of save_changes
collect_metadata_from_fields(ed, fv, self_metadata) ==
  collect_field(ed, fv, self_metadata, MODELSPEC_FIELDS[1])
    \o collect_field(ed, fv, self_metadata, MODELSPEC_FIELDS[2])

\* if "modelspec.hash_sha256" not in metadata: metadata[...] = compute_sha256(filepath)
with_hash(data, m) ==
  IF HasKey(m, HASH_KEY) THEN m ELSE DictSet(m, HASH_KEY, compute_sha256(data))

\* the file update_metadata leaves at tmp_path when it succeeds
update_metadata_output(data, new_metadata) ==
  LET r == update_metadata_header(data, new_metadata) IN
  HeaderBlock(r.new_header_bytes) \o ReadToEnd(data, r.tensor_data_start)

\* browse_file (filepath_var.set) -> load_metadata of metaeditor_safetensors/editor.py:
\* f.metadata().copy() raises for a file without __metadata__
editor_load_metadata ==
  /\ editor = PackageEditor
  /\ LET data == fs["filepath"].data IN
     IF safe_open_ok(data) /\ MemHas(json_loads(HeaderBytes(data)).val.mem, METADATA_KEY)
     THEN /\ editor_metadata' = read_safetensors_metadata(data)
          /\ field_vars' = populate_fields(read_safetensors_metadata(data))
          /\ form_event' = "loaded"
     ELSE /\ editor_metadata' = <<>>
          /\ field_vars' = populate_fields(<<>>)
          /\ form_event' = "load_error"
  /\ filepath_var' = "filepath"
  /\ UNCHANGED <<fs, editor, notForm>>

\* browse_file -> load_metadata of src/editor.py: f.metadata() or {}
legacy_load_metadata ==
  /\ editor = LegacyEditor
  /\ LET data == fs["filepath"].data IN
     IF safe_open_ok(data)
     THEN /\ editor_metadata' = read_safetensors_metadata(data)
          /\ field_vars' = populate_fields(read_safetensors_metadata(data))
          /\ form_event' = "loaded"
     ELSE /\ editor_metadata' = <<>>
          /\ field_vars' = populate_fields(<<>>)
          /\ form_event' = "load_error"
  /\ filepath_var' = "filepath"
  /\ UNCHANGED <<fs, editor, notForm>>

\* SafetensorsEditorPyQt.load_metadata: LoadMetadataCommand(self.filepath)
\* lacks the filepath argument of the constructor, the TypeError is shown
pyqt_load_metadata ==
  /\ editor = PyQtEditor
  /\ form_event' = "load_error"
  /\ filepath_var' = "filepath"
  /\ UNCHANGED <<fs, editor, editor_metadata, field_vars, notForm>>

\* the user types into a field or empties it
set_field ==
  /\ editor \in Editors
  /\ \E k \in FieldKeys, v \in FieldValues :
       /\ field_vars[k] # v
       /\ field_vars' = [field_vars EXCEPT ![k] = v]
  /\ form_event' = "edited"
  /\ UNCHANGED <<fs, editor, editor_metadata, filepath_var, notForm>>

\* SafetensorsEditor.save_changes of metaeditor_safetensors/editor.py with
\* save_changes_threaded: self.metadata.update(fields), hash, fast path or
\* fallback, replace
editor_save_changes ==
  /\ editor = PackageEditor
  /\ filepath_var # ""
  /\ LET data == fs["filepath"].data
         merged == DictUpdate(editor_metadata,
                     collect_metadata_from_fields(editor, field_vars, editor_metadata))
     IN /\ editor_metadata' = merged
        /\ \/ /\ update_metadata_header(data, with_hash(data, merged)).ok
              /\ fs' = [fs EXCEPT !["filepath"] =
                          File(update_metadata_output(data, with_hash(data, merged)))]
              /\ form_event' = "saved"
           \/ /\ safe_open_ok(data)
              /\ fs' = [fs EXCEPT !["filepath"] =
                          File(update_metadata_fallback(data, with_hash(data, merged)))]
              /\ form_event' = "saved"
           \/ /\ form_event' = "save_error"
              /\ UNCHANGED fs
  /\ UNCHANGED <<editor, field_vars, filepath_var, notForm>>

\* SafetensorsEditor.save_changes of src/editor.py: existing metadata read
\* from the file, updated with the fields, save_file straight onto filepath
legacy_save_changes ==
  /\ editor = LegacyEditor
  /\ filepath_var # ""
  /\ LET data == fs["filepath"].data IN
     \/ /\ safe_open_ok(data)
        /\ MemHas(json_loads(HeaderBytes(data)).val.mem, METADATA_KEY)
        /\ LET merged == DictUpdate(read_safetensors_metadata(data),
                           collect_metadata_from_fields(editor, field_vars, editor_metadata))
           IN \/ /\ fs' = [fs EXCEPT !["filepath"] =
                             File(update_metadata_fallback(data, with_hash(data, merged)))]
                 /\ form_event' = "saved"
              \/ /\ fs' = [fs EXCEPT !["filepath"] = File(<<>>)]
                 /\ form_event' = "save_error"
     \/ /\ form_event' = "save_error"
        /\ UNCHANGED fs
  /\ UNCHANGED <<editor, editor_metadata, field_vars, filepath_var, notForm>>

\* SafetensorsEditorPyQt.save_changes: SaveCommand(self.filepath, updated_metadata)
\* lacks the metadata argument of the constructor, the TypeError is shown
pyqt_save_changes ==
  /\ editor = PyQtEditor
  /\ filepath_var # ""
  /\ collect_metadata_from_fields(editor, field_vars, editor_metadata) \in Seq(Seq(Seq(Int)))
  /\ form_event' = "save_error"
  /\ UNCHANGED <<fs, editor, editor_metadata, field_vars, filepath_var, notForm>>

InitForm ==
  /\ \E src \in FormFiles :
       fs = [p \in Paths |-> IF p = "filepath" THEN File(src) ELSE Absent]
  /\ WorkerIdle
  /\ CtlIdle
  /\ editor \in Editors
  /\ editor_metadata = <<>>
  /\ field_vars = populate_fields(<<>>)
  /\ form_event = "none"
  /\ filepath_var = ""
  /\ LoaderIdle
  /\ RecentIdle
  /\ UndoIdle

NextForm ==
  \/ editor_load_metadata \/ legacy_load_metadata \/ pyqt_load_metadata
  \/ set_field
  \/ editor_save_changes \/ legacy_save_changes \/ pyqt_save_changes

SpecForm == InitForm /\ [][NextForm]_vars

\* C25: when the user clears a text field whose key exists in the file's
\* metadata and saves, the saved file's metadata holds that key with the
\* empty string, on every save path: the old value is not retained and the
\* key is not removed.
C25_ClearedFieldStoredEmpty ==
  [][ \A k \in FieldKeys :
        ( /\ form_event' = "saved"
          /\ WellFormed(fs["filepath"].data)
          /\ HasKey(read_safetensors_metadata(fs["filepath"].data), k)
          /\ field_vars[k] = <<>> )
        => /\ HasKey(read_safetensors_metadata(fs["filepath"].data'), k)
           /\ Get(read_safetensors_metadata(fs["filepath"].data'), k) = <<>> ]_vars

(***************************************************************************)
(* The tensor loop of update_metadata_fallback: for i, key in              *)
(* enumerate(keys), a "Loading tensors: p% (i+1/total)" message when       *)
(* i % max(50, total // 10) == 0 or i == total - 1, then get_tensor.       *)
(***************************************************************************)
MaxTensors == 60

\* tensor counts: every small one, and some beyond 500 where total // 10 > 50
TensorCounts == (1..MaxTensors) \cup {500, 509, 549, 1009}

Max(a, b) == IF a >= b THEN a ELSE b

\* the message is due at the multiples only
report_due_noLast(i, total) == i % Max(50, total \div 10) = 0

\* i % max(50, total // 10) == 0 or i == total - 1
report_due(i, total) ==
  i % Max(50, total \div 10) = 0 \/ i = total - 1

\* f"{((i + 1) / total) * 100:.0f}": the nearest integer, ties to even
percent(i, total) ==
  LET n == (i + 1) * 100
      q == n \div total
      r == n % total
  IN IF 2 * r > total THEN q + 1
     ELSE IF 2 * r < total THEN q
     ELSE IF q % 2 = 0 THEN q ELSE q + 1

LoadingMessage(i, total) == [i |-> i, percent |-> percent(i, total)]

\* one iteration of the loop
get_tensor ==
  /\ key_index < keys_total
  /\ loading_msgs' = IF report_due(key_index, keys_total)
                     THEN Append(loading_msgs, LoadingMessage(key_index, keys_total))
                     ELSE loading_msgs
  /\ key_index' = key_index + 1
  /\ UNCHANGED <<fs, keys_total, core, form, recent, undoable>>

InitLoader ==
  /\ fs = [p \in Paths |-> Absent]
  /\ WorkerIdle
  /\ CtlIdle
  /\ FormIdle
  /\ RecentIdle
  /\ UndoIdle
  /\ keys_total \in TensorCounts
  /\ key_index = 0
  /\ loading_msgs = <<>>

SpecLoader == InitLoader /\ [][get_tensor]_vars

\* C27: in the fallback rewriter, for total >= 1 tensors, a progress message
\* is emitted for tensor index i exactly when i mod max(50, total div 10) = 0
\* or i = total - 1; so at most 12 messages are emitted and the last one
\* reports 100%.
C27_LoadingMessages ==
  /\ \A j \in 0..(key_index - 1) :
       (\E n \in 1..Len(loading_msgs) : loading_msgs[n].i = j)
         <=> ( \/ j % (IF keys_total \div 10 > 50 THEN keys_total \div 10 ELSE 50) = 0
               \/ j = keys_total - 1 )
  /\ Len(loading_msgs) <= 12
  /\ key_index = keys_total =>
       /\ loading_msgs # <<>>
       /\ loading_msgs[Len(loading_msgs)].percent = 100

\* the loop has finished on a file with more than 500 tensors, where the
\* step is total // 10, and has emitted 12 messages
C27_Witness ==
  /\ keys_total > 500
  /\ key_index = keys_total
  /\ Len(loading_msgs) = 12

(***************************************************************************)
(* ConfigService: the recent files list.  Paths are numbered by first use  *)
(* (a path is added for the first time only after all lower numbers), and  *)
(* the calls other than a first add are counted against MaxReorders.       *)
(***************************************************************************)
MAX_RECENT_FILES == 10

MaxReorders == 2

\* file_path in recent_files
list_contains(l, x) == \E n \in 1..Len(l) : l[n] = x

\* recent_files.remove(file_path): the first occurrence
list_remove(l, x) ==
  LET first == CHOOSE n \in 1..Len(l) : l[n] = x /\ \A m \in 1..(n - 1) : l[m] # x
  IN SubSeq(l, 1, first - 1) \o SubSeq(l, first + 1, Len(l))

\* the cut keeps one entry too many
limit_offByOne(l) ==
  IF Len(l) > MAX_RECENT_FILES THEN SubSeq(l, 1, MAX_RECENT_FILES + 1) ELSE l

\* if len(recent_files) > self._max_recent_files: recent_files[:self._max_recent_files]
limit(l) ==
  IF Len(l) > MAX_RECENT_FILES THEN SubSeq(l, 1, MAX_RECENT_FILES) ELSE l

\* _save_settings: json.dump to settings.json; an IOError is logged only
save_settings ==
  \/ settings_file' = recent_files'
  \/ UNCHANGED settings_file

notRecent == <<fs, core, form, loader, undoable>>

add_recent_file ==
  /\ \E file_path \in RecentPaths :
       /\ \A q \in 1..(file_path - 1) : added_at[q] > 0
       /\ IF added_at[file_path] > 0
          THEN reorders < MaxReorders /\ reorders' = reorders + 1
          ELSE UNCHANGED reorders
       /\ recent_files' =
            limit(<<file_path>> \o (IF list_contains(recent_files, file_path)
                                   THEN list_remove(recent_files, file_path)
                                   ELSE recent_files))
       /\ added_at' = [added_at EXCEPT ![file_path] = adds + 1]
  /\ adds' = adds + 1
  /\ save_settings
  /\ UNCHANGED notRecent

clear_recent_files ==
  /\ reorders < MaxReorders
  /\ reorders' = reorders + 1
  /\ recent_files' = <<>>
  /\ save_settings
  /\ UNCHANGED <<added_at, adds, notRecent>>

remove_recent_file ==
  /\ reorders < MaxReorders
  /\ reorders' = reorders + 1
  /\ \E file_path \in RecentPaths :
       IF list_contains(recent_files, file_path)
       THEN /\ recent_files' = list_remove(recent_files, file_path)
            /\ save_settings
       ELSE UNCHANGED <<recent_files, settings_file>>
  /\ UNCHANGED <<added_at, adds, notRecent>>

InitRecent ==
  /\ fs = [p \in Paths |-> Absent]
  /\ WorkerIdle
  /\ CtlIdle
  /\ FormIdle
  /\ LoaderIdle
  /\ RecentIdle
  /\ UndoIdle

NextRecent == add_recent_file \/ clear_recent_files \/ remove_recent_file

SpecRecent == InitRecent /\ [][NextRecent]_vars

\* C21: starting from an empty recent-files list, after any sequence of
\* add_recent_file, remove_recent_file and clear_recent_files the list has no
\* duplicate path, at most 10 entries, and is ordered most recently added
\* first.
C21_RecentFiles ==
  /\ \A m, n \in 1..Len(recent_files) : m # n => recent_files[m] # recent_files[n]
  /\ Len(recent_files) <= 10
  /\ \A m, n \in 1..Len(recent_files) :
       m < n => added_at[recent_files[m]] > added_at[recent_files[n]]

\* an eleventh path has been added to a full list after a path already in
\* the list was added again
C21_Witness ==
  /\ Len(recent_files) = 10
  /\ adds > 11
  /\ \E p \in RecentPaths : added_at[p] > 0 /\ ~list_contains(recent_files, p)

\* C28: in the Qt controller, whenever on_save_finished marks the model as
\* saved, the model's current data equals the metadata the worker wrote to
\* the currently open file: edits or loads made while the save was in flight
\* are never marked as saved without having been written.
C28_MarkSavedOnlyWritten ==
  [][ ( /\ ui = "MainController"
        /\ status' = "Successfully saved"
        /\ Len(workers') < Len(workers) )
      => \E n \in 1..Len(workers) :
           /\ workers[n].state = "finished"
           /\ workers[n].filepath = current_file
           /\ workers[n].metadata = model_data ]_vars

\* C29: in the Qt controller, every accepted save request is eventually
\* followed by on_save_finished or on_save_error, after which the thread and
\* worker references are cleared and a new save request is accepted: the
\* controller is never left locked in the saving state.
C29_SaveRequestCompletes ==
  (ui = "MainController" /\ thread = "running")
    ~> ( /\ thread = "none"
         /\ workers = <<>>
         /\ status \in {"Successfully saved", "Save failed"} )

\* a save of the Qt controller has failed, the references are cleared and
\* the model is still dirty: the next request will be accepted
C29_Witness ==
  /\ ui = "MainController"
  /\ status = "Save failed"
  /\ thread = "none"
  /\ workers = <<>>
  /\ current_file # "none"
  /\ model_data # original_data

(***************************************************************************)
(* The undo-capable MetadataModel (metaeditor_safetensors/models): _data,  *)
(* _original_data and the history of snapshots with its index.  The data   *)
(* is one field's value; 0 is the empty metadata.                          *)
(***************************************************************************)
MAX_HISTORY == 50

MaxHistoryLen == 4

\* entries dropped from the front by the size limit after one more snapshot
dropped(h, idx) ==
  IF idx + 2 > MAX_HISTORY THEN idx + 2 - MAX_HISTORY ELSE 0

\* _save_to_history: cut the redo branch, append, limit the size
save_to_history(h, idx, d) ==
  LET kept == Append(SubSeq(h, 1, idx + 1), d)
      cut == IF Len(kept) > MAX_HISTORY
             THEN SubSeq(kept, Len(kept) - MAX_HISTORY + 1, Len(kept))
             ELSE kept
  IN [history |-> cut, history_index |-> Len(cut) - 1]

\* the position of the last load's snapshot after one more snapshot
floor_after(h, idx, floor) ==
  IF floor < 0 THEN floor
  ELSE IF floor - dropped(h, idx) < 0 THEN 0 ELSE floor - dropped(h, idx)

notUndo == <<fs, core, form, loader, recent>>

\* a snapshot is taken only while the history is short
CanSnapshot == history_index + 1 < MaxHistoryLen

load_metadata ==
  /\ CanSnapshot
  /\ \E m \in Values :
       /\ hist_data' = m
       /\ hist_original' = m
       /\ history' = save_to_history(history, history_index, m).history
       /\ history_index' = save_to_history(history, history_index, m).history_index
  /\ load_floor' = history_index'
  /\ UNCHANGED notUndo

set_field_value ==
  /\ CanSnapshot
  /\ \E v \in Values :
       /\ hist_data # v
       /\ hist_data' = v
       /\ history' = save_to_history(history, history_index, v).history
       /\ history_index' = save_to_history(history, history_index, v).history_index
  /\ load_floor' = floor_after(history, history_index, load_floor)
  /\ UNCHANGED <<hist_original, notUndo>>

mark_clean ==
  /\ hist_original # hist_data
  /\ hist_original' = hist_data
  /\ UNCHANGED <<hist_data, history, history_index, load_floor, notUndo>>

reset_to_original ==
  /\ CanSnapshot
  /\ hist_data' = hist_original
  /\ history' = save_to_history(history, history_index, hist_original).history
  /\ history_index' = save_to_history(history, history_index, hist_original).history_index
  /\ load_floor' = floor_after(history, history_index, load_floor)
  /\ UNCHANGED <<hist_original, notUndo>>

can_undo == history_index > 0

can_redo == history_index < Len(history) - 1

undo ==
  /\ can_undo
  /\ history_index' = history_index - 1
  /\ hist_data' = history[history_index' + 1]
  /\ UNCHANGED <<hist_original, history, load_floor, notUndo>>

redo ==
  /\ can_redo
  /\ history_index' = history_index + 1
  /\ hist_data' = history[history_index' + 1]
  /\ UNCHANGED <<hist_original, history, load_floor, notUndo>>

clear ==
  /\ history # <<>>
  /\ hist_data' = 0
  /\ hist_original' = 0
  /\ history' = <<>>
  /\ history_index' = -1
  /\ load_floor' = -1
  /\ UNCHANGED notUndo

InitUndo ==
  /\ fs = [p \in Paths |-> Absent]
  /\ WorkerIdle
  /\ CtlIdle
  /\ FormIdle
  /\ LoaderIdle
  /\ RecentIdle
  /\ UndoIdle

NextUndo ==
  \/ load_metadata \/ set_field_value \/ mark_clean \/ reset_to_original
  \/ undo \/ redo \/ clear

SpecUndo == InitUndo /\ [][NextUndo]_vars

\* C30: in the undo-capable MetadataModel, after load_metadata(m) no sequence
\* of undo calls makes the model's data a state that existed before that
\* load: the history position never falls below the snapshot of the most
\* recent load.
C30_UndoBoundedByLoad ==
  load_floor >= 0 => history_index >= load_floor
====
